---------------------------- MODULE Spec2Model ----------------------------
(***************************************************************************)
(* State machine of src/src/server.js: the in-memory message store, the   *)
(* SSE subscriber set, the session variables driven by the transport's    *)
(* connection.update events, and the HTTP handlers that read them.        *)
(*                                                                         *)
(* The transport (Baileys) is the environment.  server.js never ends a    *)
(* handle it replaces and never detaches the listeners it registered on   *)
(* it (lines 128-146), so every handle that was created may go on         *)
(* emitting events; the handlers are closures over the module's globals.  *)
(***************************************************************************)
EXTENDS Integers, Sequences, FiniteSets, TLC

(***************************************************************************)
(* Bounds of the model.                                                    *)
(***************************************************************************)
\* startSock is called at most this many times (boot included)
MaxSocks == 3
\* at most this many payloads reach the subscribers in total (hello included)
MaxWrites == 5
\* at most this many GET /events requests arrive
MaxClients == 2
\* at most this many new messages arrive under EventSpec
MaxMsgs == 2
\* longest messages.upsert batch
MaxBatch == 2
\* only the first MaxEarly messages carry an arbitrary id (absent or a
\* repeat); every later message carries a fresh id
MaxEarly == 2
\* StoreSpec appends MAX_RECENT + MaxExtra messages
MaxExtra == 2
\* longest `to` of a POST /send
MaxToLen == 2
\* at most this many new messages arrive under BatchSpec
MaxNew == 3

(***************************************************************************)
(* Program constants.                                                      *)
(***************************************************************************)
MAX_RECENT == 200
DEFAULT_LIMIT == 50
\* DisconnectReason.loggedOut and DisconnectReason.connectionClosed
LoggedOut == 401
ConnectionClosed == 428

\* JS null / undefined
NULL == "null"
\* key.id undefined
NoId == 0
\* sock === null
NoSock == 0
\* lastDisconnect?.error?.output?.statusCode undefined
NoCode == 0

VARIABLES
  \* --- message store (lines 23-25)
  recentMessages,   \* array of items, oldest first
  msgIndex,         \* Map key.id -> msg
  \* --- SSE (line 28)
  sseClients,       \* Set of res objects, in insertion order
  \* --- session (lines 31-36)
  latestQR,
  sock,
  isConnected,
  me,
  \* --- configuration (line 20)
  WEBHOOK_URL,
  \* --- control state
  pending,          \* startSock calls suspended at line 118
  tasks,            \* messages.upsert handlers suspended at line 209 (FIFO)
  exited,           \* process.exit(1) was called (line 223)
  \* --- transport side
  socks,            \* handles makeWASocket has returned
  user,             \* handle -> its sock.user
  \* --- HTTP side
  received,         \* res -> what was written to it and delivered
  broken,           \* res objects whose connection no longer delivers
  closedReqs,       \* res objects whose req 'close' handler has run
  httpResp,         \* the response sent in the latest step, if any
  sendCall,         \* the sock.sendMessage call made in the latest step
  \* --- history of the run
  started,          \* number of startSock calls so far
  delivered,        \* number of messages handed to recordInbound so far
  appended,         \* every item pushed to recentMessages, in order
  emitted,          \* the payloads broadcast in the latest step, in order
  handled,          \* the connection update handled in the latest step
  upserted,         \* the messages.upsert payload handled in the latest step
  fetches,          \* items handed to fetch(WEBHOOK_URL), in order
  outcomes          \* index in fetches -> how that fetch promise settled

vars == <<recentMessages, msgIndex, sseClients, latestQR, sock, isConnected,
          me, WEBHOOK_URL, pending, tasks, exited, socks, user, received,
          broken, closedReqs, httpResp, sendCall, started, delivered,
          appended, emitted, handled, upserted, fetches, outcomes>>

(***************************************************************************)
(* Helpers on sequences and maps.                                          *)
(***************************************************************************)
Min(a, b) == IF a < b THEN a ELSE b
Max(a, b) == IF a > b THEN a ELSE b

\* Array.prototype.shift: the array without its first element
Shift(s) == SubSeq(s, 2, Len(s))

\* Array.prototype.slice(-k) for k >= 1: the last k elements, all if fewer
SliceLast(s, k) == SubSeq(s, Max(1, Len(s) - k + 1), Len(s))

\* Map.prototype.set
MapSet(m, k, v) == [x \in DOMAIN m \cup {k} |-> IF x = k THEN v ELSE m[x]]

\* Map.prototype.delete
MapDelete(m, k) == [x \in DOMAIN m \ {k} |-> m[x]]

\* the same, were the element left in the set
SetDeleteNothing(s, c) == s

\* Set.prototype.delete on the insertion-ordered set
SetDelete(s, c) == SelectSeq(s, LAMBDA x : x # c)

Range(s) == {s[i] : i \in DOMAIN s}

NoResp == [route |-> "none"]
NoCall == [sock |-> NoSock]
NoUpdate == [h |-> NoSock]
NoBatch == [type |-> "none"]


(***************************************************************************)
(* Initial state: the module has been loaded, which declares the globals  *)
(* (lines 18-39), makes the boot call of startSock (line 221), suspended   *)
(* at its first await, and starts the HTTP server (line 302).              *)
(***************************************************************************)
Init ==
  /\ recentMessages = << >>
  /\ msgIndex = << >>
  /\ sseClients = << >>
  /\ latestQR = NULL
  /\ sock = NoSock
  /\ isConnected = FALSE
  /\ me = NULL
  /\ WEBHOOK_URL \in {"", "http://hook"}
  /\ pending = {[id |-> 1, kind |-> "boot"]}
  /\ tasks = << >>
  /\ exited = FALSE
  /\ socks = {}
  /\ user = << >>
  /\ received = << >>
  /\ broken = {}
  /\ closedReqs = {}
  /\ httpResp = NoResp
  /\ sendCall = NoCall
  /\ started = 1
  /\ delivered = 0
  /\ appended = << >>
  /\ emitted = << >>
  /\ handled = NoUpdate
  /\ upserted = NoBatch
  /\ fetches = << >>
  /\ outcomes = << >>

\* a step that is no HTTP request sends no response and calls no sendMessage
NoHttp == httpResp' = NoResp /\ sendCall' = NoCall

(***************************************************************************)
(* SSE fan-out: `for (const res of sseClients) res.write(payload)`.        *)
(* http.ServerResponse.write does not throw on a dead connection: it      *)
(* returns false and the chunk is dropped.                                 *)
(***************************************************************************)
\* res.write(payload) on one response: what that client has received after it
Write(rcv, c, payload) ==
  IF c \in broken THEN rcv[c] ELSE Append(rcv[c], payload)

\* the loop, were it to end at the first response that does not deliver
BroadcastUntilFailure(rcv, payload) ==
  [c \in DOMAIN rcv |->
     IF /\ c \in Range(sseClients)
        /\ \A i \in DOMAIN sseClients :
             sseClients[i] \in broken
               => \E j \in 1..(i - 1) : sseClients[j] = c
       THEN Write(rcv, c, payload)
       ELSE rcv[c]]

\* the loop over sseClients; rcv is `received` as it stands before the loop
Broadcast(rcv, payload) ==
  [c \in DOMAIN rcv |->
     IF c \in Range(sseClients) THEN Write(rcv, c, payload) ELSE rcv[c]]

(***************************************************************************)
(* recordInbound(msg), lines 44-107.  A transport message is modelled by  *)
(* its key.id and its identity n as an object; the item keeps the id and  *)
(* the raw message (the other fields of the item are copies of fields of  *)
(* msg and a timestamp).                                                   *)
(***************************************************************************)
Item(msg) == [id |-> msg.id, raw |-> msg]

\* line 80
IndexAfterSet(idx, item) ==
  IF item.id # NoId THEN MapSet(idx, item.id, item.raw) ELSE idx

\* the same with pop() in place of shift()
HistoryAfterPushPop(hist, item) ==
  LET pushed == Append(hist, item)
  IN IF Len(pushed) > MAX_RECENT THEN SubSeq(pushed, 1, Len(pushed) - 1)
                                 ELSE pushed

\* lines 81-83: push, then shift when longer than MAX_RECENT
HistoryAfterPush(hist, item) ==
  LET pushed == Append(hist, item)
  IN IF Len(pushed) > MAX_RECENT THEN Shift(pushed) ELSE pushed

\* lines 82-84: the index after the eviction, if there is one
IndexAfterEvict(idx, hist, item) ==
  LET pushed == Append(hist, item)
  IN IF Len(pushed) > MAX_RECENT /\ Head(pushed).id # NoId
       THEN MapDelete(idx, Head(pushed).id)
       ELSE idx

MessageEvent(item) == [type |-> "message", data |-> item]

\* the same, were the forward attempted without a configured URL
FetchesAfterAlways(f, item) == Append(f, item)

\* lines 92-103: fetch is called and its promise is not awaited
FetchesAfter(f, item) ==
  IF WEBHOOK_URL # "" THEN Append(f, item) ELSE f

RecordInbound(msg) ==
  LET item == Item(msg)
  IN /\ msgIndex' = IndexAfterEvict(IndexAfterSet(msgIndex, item),
                                    recentMessages, item)
     /\ recentMessages' = HistoryAfterPush(recentMessages, item)
     /\ appended' = Append(appended, item)
     /\ received' = Broadcast(received, MessageEvent(item))
     /\ emitted' = <<MessageEvent(item)>>
     /\ fetches' = FetchesAfter(fetches, item)

(***************************************************************************)
(* messages.upsert handler, lines 204-211.  recordInbound has no await of *)
(* its own, so each call runs to completion; the handler then suspends at *)
(* `await` and its continuation is queued behind the other microtasks.    *)
(***************************************************************************)
\* the ids message number s may carry
IdChoices(s) == IF s <= MaxEarly THEN 0..s ELSE {s}

\* the ids that k messages numbered from + 1, from + 2, ... may carry
RECURSIVE IdSeqs(_, _)
IdSeqs(from, k) ==
  IF k = 0 THEN {<< >>}
  ELSE {<<i>> \o r : i \in IdChoices(from + 1), r \in IdSeqs(from + 1, k - 1)}

\* the batches of k messages the transport can hand over next (a payload
\* whose `messages` is no array is modelled with isArray false); n numbers
\* the messages that recordInbound is called with
BatchesOf(k) ==
  {[type |-> t, isArray |-> a,
    messages |-> [i \in 1..k |-> [id |-> ids[i], n |-> delivered + i]]] :
     t \in {"notify", "append"}, a \in BOOLEAN, ids \in IdSeqs(delivered, k)}

\* the same, were the batch's type not looked at
RecordedAnyType(b) == b.isArray

\* lines 205 and 209: the batch is a list and its type is 'notify'
Recorded(b) == b.isArray /\ b.type = "notify"

MessagesUpsert(h, b) ==
  /\ ~exited
  /\ h \in socks
  /\ IF Recorded(b) /\ b.messages # << >>
       THEN /\ RecordInbound(Head(b.messages))
            /\ tasks' = IF Len(b.messages) > 1
                          THEN Append(tasks, Tail(b.messages))
                          ELSE tasks
            /\ delivered' = delivered + Len(b.messages)
       ELSE /\ emitted' = << >>
            /\ UNCHANGED <<recentMessages, msgIndex, appended, received,
                           fetches, tasks, delivered>>
  /\ NoHttp
  /\ handled' = NoUpdate
  /\ upserted' = b
  /\ UNCHANGED outcomes
  /\ UNCHANGED <<sseClients, latestQR, sock, isConnected, me, WEBHOOK_URL,
                 pending, exited, socks, user, broken, closedReqs, started>>

\* the continuation at the head of the microtask queue: the next iteration
UpsertResume ==
  /\ ~exited
  /\ tasks # << >>
  /\ RecordInbound(Head(Head(tasks)))
  /\ tasks' = IF Len(Head(tasks)) > 1
                THEN Append(Tail(tasks), Tail(Head(tasks)))
                ELSE Tail(tasks)
  /\ NoHttp
  /\ handled' = NoUpdate
  /\ upserted' = NoBatch
  /\ UNCHANGED outcomes
  /\ UNCHANGED <<sseClients, latestQR, sock, isConnected, me, WEBHOOK_URL,
                 pending, exited, socks, user, broken, closedReqs, started,
                 delivered>>

\* macrotasks (HTTP requests, I/O completions) run when no microtask is queued
Idle == ~exited /\ tasks = << >>

\* lines 99-100: the promise of fetch number i settles; both callbacks only
\* log
FetchSettle(i, ok) ==
  /\ Idle
  /\ i \in DOMAIN fetches
  /\ i \notin DOMAIN outcomes
  /\ outcomes' = MapSet(outcomes, i, IF ok THEN "forwarded" ELSE "failed")
  /\ httpResp' = NoResp
  /\ sendCall' = NoCall
  /\ emitted' = << >>
  /\ handled' = NoUpdate
  /\ upserted' = NoBatch
  /\ UNCHANGED <<recentMessages, msgIndex, sseClients, latestQR, sock,
                 isConnected, me, WEBHOOK_URL, pending, tasks, exited, socks,
                 user, received, broken, closedReqs, started, delivered,
                 appended, fetches>>

(***************************************************************************)
(* startSock, lines 112-218.                                               *)
(***************************************************************************)
\* lines 112-118: the call runs to `await useMultiFileAuthState`
StartSockBegin(p, n, kind) == p \cup {[id |-> n + 1, kind |-> kind]}

\* the same, were a failed reconnect fatal too
ExitsOnAnyFailure(kind) == kind \in {"boot", "reconnect"}

\* who catches a startSock that throws: the boot call's catch exits the
\* process (lines 221-224), the reconnect's catch only logs (lines 193-196)
ExitsOnFailure(kind) == kind = "boot"

\* lines 118-218 after the await: the credentials load and makeWASocket
\* either succeed (the handle is stored in `sock` and the handlers are
\* registered) or throw (lines 193-196 for a reconnect, 221-224 at boot)
StartSockResume(p, ok, u0) ==
  /\ Idle
  /\ p \in pending
  /\ pending' = pending \ {p}
  /\ IF ok
       THEN /\ sock' = p.id
            /\ socks' = socks \cup {p.id}
            /\ user' = MapSet(user, p.id, u0)
            /\ UNCHANGED exited
       ELSE /\ exited' = ExitsOnFailure(p.kind)
            /\ UNCHANGED <<sock, socks, user>>
  /\ NoHttp
  /\ handled' = NoUpdate
  /\ upserted' = NoBatch
  /\ UNCHANGED outcomes
  /\ emitted' = << >>
  /\ UNCHANGED <<recentMessages, msgIndex, sseClients, latestQR, isConnected,
                 me, WEBHOOK_URL, tasks, received, broken, closedReqs,
                 started, delivered, appended, fetches>>


(***************************************************************************)
(* connection.update handler, lines 146-201.  It has no await, so it runs *)
(* to completion.  h is the handle that emits the update; the handler     *)
(* does not look at it and reads the global `sock` (line 165).            *)
(***************************************************************************)
Me == "me@s.whatsapp.net"

QrEvent == [type |-> "qr"]
StatusOpen(m) == [type |-> "status", connected |-> TRUE, me |-> m]
StatusClosed(code) == [type |-> "status", connected |-> FALSE, reason |-> code]

\* the updates the transport emits
Updates ==
  {[connection |-> c, qr |-> q, statusCode |-> r] :
     c \in {"none", "connecting", "open"}, q \in {NULL, "qr1"}, r \in {NoCode}}
  \cup
  {[connection |-> "close", qr |-> q, statusCode |-> r] :
     q \in {NULL, "qr1"}, r \in {LoggedOut, ConnectionClosed, NoCode}}

\* the same, were a missing status code taken for a logout
ShouldReconnectIfCoded(statusCode) == statusCode \notin {LoggedOut, NoCode}

\* line 172
ShouldReconnect(statusCode) == statusCode # LoggedOut

\* lines 190-199: startSock() is called, or not
PendingAfterClose(statusCode) ==
  IF ShouldReconnect(statusCode)
    THEN StartSockBegin(pending, started, "reconnect")
    ELSE pending

StartedAfterClose(statusCode) ==
  IF ShouldReconnect(statusCode) THEN started + 1 ELSE started

\* lines 155-160, then 162-200
ConnectionUpdate(h, u) ==
  LET hasQr == u.qr # NULL
      rcv1 == IF hasQr THEN Broadcast(received, QrEvent) ELSE received
      log1 == IF hasQr THEN <<QrEvent>> ELSE << >>
      qr1 == IF hasQr THEN u.qr ELSE latestQR
  IN /\ ~exited
     /\ h \in socks
     /\ IF u.connection = "open"
          THEN \* the transport has set the handle's user before it emits open
               /\ user' = [user EXCEPT ![h] = Me]
               /\ isConnected' = TRUE
               /\ latestQR' = NULL
               /\ me' = user'[sock]
               /\ received' = Broadcast(rcv1, StatusOpen(me'))
               /\ emitted' = Append(log1, StatusOpen(me'))
               /\ UNCHANGED <<pending, started>>
          ELSE IF u.connection = "close"
          THEN /\ isConnected' = FALSE
               /\ latestQR' = qr1
               /\ received' = Broadcast(rcv1, StatusClosed(u.statusCode))
               /\ emitted' = Append(log1, StatusClosed(u.statusCode))
               /\ pending' = PendingAfterClose(u.statusCode)
               /\ started' = StartedAfterClose(u.statusCode)
               /\ UNCHANGED <<me, user>>
          ELSE /\ latestQR' = qr1
               /\ received' = rcv1
               /\ emitted' = log1
               /\ UNCHANGED <<isConnected, me, user, pending, started>>
     /\ handled' = [h |-> h, u |-> u]
     /\ upserted' = NoBatch
     /\ UNCHANGED outcomes
     /\ NoHttp
     /\ UNCHANGED <<recentMessages, msgIndex, sseClients, sock, WEBHOOK_URL,
                    tasks, exited, socks, broken, closedReqs, delivered,
                    appended, fetches>>

\* number of payloads an update broadcasts
PayloadsOf(u) ==
  (IF u.qr # NULL THEN 1 ELSE 0)
  + (IF u.connection \in {"open", "close"} THEN 1 ELSE 0)

(***************************************************************************)
(* HTTP handlers, lines 234-300.                                           *)
(***************************************************************************)
\* the same, were hasQR reported whenever the session is not connected
CurrentStatusQrUnlessOpen ==
  [connected |-> isConnected, me |-> me, hasQR |-> ~isConnected]

\* line 235
CurrentStatus ==
  [connected |-> isConnected, me |-> me, hasQR |-> (latestQR # NULL)]

Unchanged ==
  /\ emitted' = << >>
  /\ handled' = NoUpdate
  /\ upserted' = NoBatch
  /\ UNCHANGED outcomes
  /\ UNCHANGED <<recentMessages, msgIndex, sseClients, latestQR, sock,
                 isConnected, me, WEBHOOK_URL, pending, tasks, exited, socks,
                 user, received, broken, closedReqs, started, delivered,
                 appended, fetches>>

GetStatus ==
  /\ Idle
  /\ httpResp' = [route |-> "status", status |-> 200, body |-> CurrentStatus]
  /\ sendCall' = NoCall
  /\ Unchanged

\* lines 239-251; rendered tells whether QRCode.toBuffer resolved
GetQr(rendered) ==
  /\ Idle
  /\ httpResp' = IF latestQR = NULL
                   THEN [route |-> "qr", status |-> 204]
                   ELSE IF rendered
                   THEN [route |-> "qr", status |-> 200, body |-> latestQR]
                   ELSE [route |-> "qr", status |-> 500,
                         body |-> "failed_to_generate_qr"]
  /\ sendCall' = NoCall
  /\ Unchanged

HelloEvent == [type |-> "hello"]

\* lines 254-267: c is the new response object
GetEvents ==
  LET c == Len(received) + 1
  IN /\ Idle
     /\ received' = Append(received, <<HelloEvent>>)
     /\ sseClients' = Append(sseClients, c)
     /\ NoHttp
     /\ handled' = NoUpdate
     /\ upserted' = NoBatch
     /\ UNCHANGED outcomes
     /\ emitted' = << >>
     /\ UNCHANGED <<recentMessages, msgIndex, latestQR, sock, isConnected, me,
                    WEBHOOK_URL, pending, tasks, exited, socks, user, broken,
                    closedReqs, started, delivered, appended, fetches>>

\* lines 262-266: the request's 'close' event, emitted once
ReqClose(c) ==
  /\ Idle
  /\ c \in DOMAIN received
  /\ c \notin closedReqs
  /\ sseClients' = SetDelete(sseClients, c)
  /\ closedReqs' = closedReqs \cup {c}
  /\ NoHttp
  /\ handled' = NoUpdate
  /\ upserted' = NoBatch
  /\ UNCHANGED outcomes
  /\ emitted' = << >>
  /\ UNCHANGED <<recentMessages, msgIndex, latestQR, sock, isConnected, me,
                 WEBHOOK_URL, pending, tasks, exited, socks, user, received,
                 broken, started, delivered, appended, fetches>>

\* the network: a client's connection stops delivering before its request's
\* 'close' event has been handled
ChannelBreak(c) ==
  /\ ~exited
  /\ c \in DOMAIN received
  /\ c \notin closedReqs
  /\ c \notin broken
  /\ broken' = broken \cup {c}
  /\ NoHttp
  /\ handled' = NoUpdate
  /\ upserted' = NoBatch
  /\ UNCHANGED outcomes
  /\ emitted' = << >>
  /\ UNCHANGED <<recentMessages, msgIndex, sseClients, latestQR, sock,
                 isConnected, me, WEBHOOK_URL, pending, tasks, exited, socks,
                 user, received, closedReqs, started, delivered, appended,
                 fetches>>

\* req.query.limit: missing, not a number, or the decimal text of an integer
LimitInputs ==
  {[kind |-> "missing"], [kind |-> "text"]}
  \cup {[kind |-> "num", n |-> n] :
          n \in {-1, 0, 1, 2, DEFAULT_LIMIT, DEFAULT_LIMIT + 1,
                 MAX_RECENT, MAX_RECENT + 1, 9999}}

\* line 271: Math.max(1, Math.min(Number(limit) || 50, MAX_RECENT));
\* Number() of a missing or non-numeric value is NaN, and NaN and 0 are falsy
LimitOf(q) ==
  LET numOr == IF q.kind = "num" /\ q.n # 0 THEN q.n ELSE DEFAULT_LIMIT
  IN Max(1, Min(numOr, MAX_RECENT))

\* line 272
GetRecent(q) == SliceLast(recentMessages, LimitOf(q))

GetMessages(q) ==
  /\ Idle
  /\ httpResp' = [route |-> "messages", query |-> q, status |-> 200,
                  body |-> GetRecent(q)]
  /\ sendCall' = NoCall
  /\ Unchanged


(***************************************************************************)
(* normalizeJid, lines 276-283.  A string is the sequence of its           *)
(* characters.                                                             *)
(***************************************************************************)
Digits == {"0", "1", "2", "3", "4", "5", "6", "7", "8", "9"}
Alphabet == {"1", "2", "a", "@"}

\* the values of req.body.to; the empty string stands for a missing field too
ToInputs == UNION {[1..k -> Alphabet] : k \in 0..MaxToLen}

HasAt(str) == \E i \in DOMAIN str : str[i] = "@"

\* the same, were nothing stripped
StripNothing(str) == str

\* to.replace(/[^\d]/g, '')
StripNonDigits(str) == SelectSeq(str, LAMBDA ch : ch \in Digits)

PnSuffix == <<"@", "s", ".", "w", "h", "a", "t", "s", "a", "p", "p", ".",
              "n", "e", "t">>

\* index of the first occurrence of ch in str, 0 if there is none
IndexOf(str, ch) ==
  IF \E i \in DOMAIN str : str[i] = ch
    THEN CHOOSE i \in DOMAIN str :
           str[i] = ch /\ \A j \in 1..(i - 1) : str[j] # ch
    ELSE 0

\* str up to the first ch, all of it if there is none
Before(str, ch) ==
  IF IndexOf(str, ch) = 0 THEN str ELSE SubSeq(str, 1, IndexOf(str, ch) - 1)

\* Baileys' jidNormalizedUser: decode user[_agent][:device]@server and encode
\* user@server, with the legacy server c.us written s.whatsapp.net
JidNormalizedUser(jid) ==
  IF ~HasAt(jid) THEN << >>
  ELSE LET at == IndexOf(jid, "@")
           server == SubSeq(jid, at + 1, Len(jid))
           usr == Before(Before(SubSeq(jid, 1, at - 1), ":"), "_")
       IN usr \o <<"@">> \o
          (IF server = <<"c", ".", "u", "s">> THEN Tail(PnSuffix) ELSE server)

\* the result of normalizeJid: the JID, or the error it throws
NormalizeJid(to) ==
  IF HasAt(to) THEN [ok |-> TRUE, jid |-> to]
  ELSE IF StripNonDigits(to) = << >>
    THEN [ok |-> FALSE, error |-> "invalid_recipient"]
    ELSE [ok |-> TRUE, jid |-> JidNormalizedUser(StripNonDigits(to) \o PnSuffix)]

(***************************************************************************)
(* POST /send, lines 286-300.  The handler reads no global after its      *)
(* await of sock.sendMessage, so the call and the response are one step;  *)
(* sent tells whether the transport resolves the call.                    *)
(***************************************************************************)
MsgId == "MSGID"

\* line 290: is the request answered socket_not_ready
SockNotReady == sock = NoSock

\* the response when normalizeJid throws: the catch of lines 296-299
ResponseOnThrow == [status |-> 500, body |-> [ok |-> FALSE, error |-> "send_failed"]]

SendResponse(to, message, sent) ==
  IF to = << >> \/ message = ""
    THEN [status |-> 400, body |-> [error |-> "to_and_message_required"]]
  ELSE IF SockNotReady
    THEN [status |-> 503, body |-> [error |-> "socket_not_ready"]]
  ELSE IF ~NormalizeJid(to).ok
    THEN ResponseOnThrow
  ELSE IF sent
    THEN [status |-> 200,
          body |-> [ok |-> TRUE, id |-> MsgId, to |-> NormalizeJid(to).jid]]
    ELSE [status |-> 500, body |-> [ok |-> FALSE, error |-> "send_failed"]]

\* line 293 is reached
SendReached(to, message) ==
  /\ to # << >>
  /\ message # ""
  /\ ~SockNotReady
  /\ NormalizeJid(to).ok

PostSend(to, message, sent) ==
  /\ Idle
  /\ httpResp' = [route |-> "send", to |-> to, message |-> message,
                  status |-> SendResponse(to, message, sent).status,
                  body |-> SendResponse(to, message, sent).body]
  /\ sendCall' = IF SendReached(to, message)
                   THEN [sock |-> sock, jid |-> NormalizeJid(to).jid,
                         text |-> message]
                   ELSE NoCall
  /\ Unchanged

(***************************************************************************)
(* The session: the transport's connection updates on every handle, the   *)
(* reconnects they start, and the requests that read the session.         *)
(***************************************************************************)
Resume ==
  \E p \in pending, ok \in BOOLEAN, u0 \in {NULL, Me} :
    StartSockResume(p, ok, u0)

Update ==
  \E h \in socks, u \in Updates :
    /\ (u.connection = "close" /\ ShouldReconnect(u.statusCode)
          => started < MaxSocks)
    /\ ConnectionUpdate(h, u)

Send ==
  \E to \in ToInputs, message \in {"", "hi"}, sent \in BOOLEAN :
    PostSend(to, message, sent)

Next ==
  \/ Resume
  \/ Update
  \/ GetStatus
  \/ \E rendered \in BOOLEAN : GetQr(rendered)

Spec == Init /\ [][Next]_vars

(***************************************************************************)
(* The event stream: subscribers come and go while the transport emits    *)
(* connection updates and message batches.                                 *)
(***************************************************************************)
\* the updates of one handle's life, each broadcasting one payload and
\* starting no new session: pairing codes until the session opens, the
\* open, and the logged-out close of the open session
EventUpdates ==
  {u \in Updates :
     \/ u.connection = "none" /\ u.qr # NULL /\ me = NULL
     \/ u.connection = "open" /\ u.qr = NULL /\ me = NULL
     \/ u.connection = "close" /\ u.qr = NULL /\ u.statusCode = LoggedOut
          /\ isConnected}

RECURSIVE SumLen(_, _)
SumLen(f, n) == IF n = 0 THEN 0 ELSE Len(f[n]) + SumLen(f, n - 1)

\* payloads that have reached the subscribers so far
Writes == SumLen(received, Len(received))

\* subscribers a broadcast reaches
Reached == Cardinality({c \in Range(sseClients) : c \notin broken})

\* k more payloads can be broadcast within the bounds
Room(k) == Writes + k * Reached <= MaxWrites

EventUpdate ==
  \E h \in socks, u \in EventUpdates :
    /\ Room(1)
    /\ ConnectionUpdate(h, u)

\* a list of new messages, each with a fresh id, arrives
Upsert ==
  \E h \in socks, k \in 1..MaxBatch :
    /\ delivered + k <= MaxMsgs
    /\ Room(k)
    /\ \E b \in BatchesOf(k) :
         /\ b.isArray /\ b.type = "notify"
         /\ \A i \in 1..k : b.messages[i].id = b.messages[i].n
         /\ MessagesUpsert(h, b)

EventNext ==
  \/ \E p \in pending, ok \in BOOLEAN : StartSockResume(p, ok, Me)
  \/ EventUpdate
  \/ Upsert
  \/ UpsertResume
  \/ Len(received) < MaxClients /\ Writes < MaxWrites /\ GetEvents
  \/ \E c \in DOMAIN received : ReqClose(c)
  \/ \E c \in DOMAIN received : ChannelBreak(c)

\* the webhook is configured
EventInit == Init /\ WEBHOOK_URL # ""

EventSpec == EventInit /\ [][EventNext]_vars

(***************************************************************************)
(* The webhook: message batches arrive, with or without a configured URL, *)
(* while the forwards of earlier messages are pending, succeed or fail.   *)
(***************************************************************************)
Settle == \E i \in DOMAIN fetches, ok \in BOOLEAN : FetchSettle(i, ok)

HookNext ==
  \/ \E p \in pending, ok \in BOOLEAN : StartSockResume(p, ok, Me)
  \/ EventUpdate
  \/ Upsert
  \/ UpsertResume
  \/ Len(received) < MaxClients /\ Writes < MaxWrites /\ GetEvents
  \/ Settle

HookSpec == Init /\ [][HookNext]_vars

(***************************************************************************)
(* Message batches of every kind, also back to back: a batch may arrive   *)
(* while the handler of an earlier one is suspended in its loop.          *)
(***************************************************************************)
BatchUpsert ==
  \E h \in socks, k \in 0..MaxBatch :
    /\ Room(k)
    /\ \E b \in BatchesOf(k) :
         /\ Recorded(b) => delivered + k <= MaxNew
         /\ MessagesUpsert(h, b)

BatchNext ==
  \/ \E p \in pending, ok \in BOOLEAN : StartSockResume(p, ok, Me)
  \/ BatchUpsert
  \/ UpsertResume
  \/ Len(received) < MaxClients /\ Writes < MaxWrites /\ GetEvents

BatchSpec == Init /\ [][BatchNext]_vars

(***************************************************************************)
(* POST /send while one handle goes through its life.                      *)
(***************************************************************************)
SendUpdate == \E h \in socks, u \in EventUpdates : ConnectionUpdate(h, u)

SendNext ==
  \/ Resume
  \/ SendUpdate
  \/ Send

SendSpec == Init /\ [][SendNext]_vars

(***************************************************************************)
(* The message store at its capacity: the transport hands over one new    *)
(* message at a time, MAX_RECENT + MaxExtra of them, and GET /messages    *)
(* reads the history.                                                      *)
(***************************************************************************)
Arrive ==
  \E h \in socks, b \in BatchesOf(1) :
    /\ delivered < MAX_RECENT + MaxExtra
    /\ b.isArray /\ b.type = "notify"
    /\ MessagesUpsert(h, b)

StoreNext ==
  \/ Resume
  \/ Arrive
  \/ \E q \in LimitInputs : GetMessages(q)

\* no webhook is configured
StoreInit == Init /\ WEBHOOK_URL = ""

StoreSpec == StoreInit /\ [][StoreNext]_vars


(***************************************************************************)
(* Properties.                                                             *)
(***************************************************************************)
Last(s) == s[Len(s)]

BothFields == httpResp.to # << >> /\ httpResp.message # ""

\* C1: the status GET /status reports never has both a pending pairing
\* payload (hasQR) and a non-null identity (me).
C1_StatusExclusive ==
  httpResp.route = "status"
    => ~(httpResp.body.hasQR /\ httpResp.body.me # NULL)

\* C2: a POST /send with both fields is answered 503 and calls no
\* sendMessage whenever the session is not Open; in Open a parseable
\* recipient is handed to the transport and a 200 carries the transport's id.
C2_SendNeedsOpen ==
  (httpResp.route = "send" /\ BothFields)
    => /\ ~isConnected => httpResp.status = 503 /\ sendCall = NoCall
       /\ (isConnected /\ NormalizeJid(httpResp.to).ok)
            => /\ sendCall # NoCall
               /\ httpResp.status = 200 => httpResp.body.id = MsgId

\* C3: after n appends the history is the last min(n, MAX_RECENT) appended
\* records in arrival order; it is never longer than MAX_RECENT.
C3_HistoryIsLastAppended ==
  /\ Len(recentMessages) = Min(Len(appended), MAX_RECENT)
  /\ recentMessages = SliceLast(appended, MAX_RECENT)

\* C3 witness: m1..m200 and then m201 were appended; the history is m2..m201
C3_Witness ==
  /\ Len(appended) = MAX_RECENT + 1
  /\ Len(recentMessages) = MAX_RECENT
  /\ recentMessages[1] = appended[2]
  /\ recentMessages[MAX_RECENT] = appended[MAX_RECENT + 1]

\* C4: the index has an entry for id x exactly when the history holds a
\* record with id x, and then the history holds exactly one such record.
C4_IndexMatchesHistory ==
  \A x \in 1..delivered :
    LET holders == {i \in DOMAIN recentMessages : recentMessages[i].id = x}
    IN /\ x \in DOMAIN msgIndex <=> holders # {}
       /\ Cardinality(holders) <= 1

\* C5: GET /messages returns the last min(clamp(limit, 1, MAX_RECENT), size)
\* records, newest last; a missing or non-numeric limit counts as 50.
C5_RecentIsClampedSuffix ==
  httpResp.route = "messages" =>
    LET q == httpResp.query
        limit == IF q.kind = "num" THEN q.n ELSE DEFAULT_LIMIT
        clamped == Max(1, Min(limit, MAX_RECENT))
        k == Min(clamped, Len(recentMessages))
    IN /\ Len(httpResp.body) = k
       /\ httpResp.body =
            SubSeq(recentMessages, Len(recentMessages) - k + 1,
                   Len(recentMessages))

CloseCodes == {LoggedOut, ConnectionClosed, NoCode}

\* the step ran the close branch of the connection.update handler with code r
ClosedWith(r) == emitted' # << >> /\ Last(emitted') = StatusClosed(r)

\* C6: a close whose reason is not logged-out (a missing code included)
\* starts exactly one session initialization, a logged-out close starts
\* none, either leaves the session Closed, and nothing else starts one.
C6_CloseStartsOneInit ==
  [][/\ \A r \in CloseCodes :
          ClosedWith(r) =>
            /\ ~isConnected'
            /\ IF r # LoggedOut
                 THEN /\ started' = started + 1
                      /\ [id |-> started', kind |-> "reconnect"] \notin pending
                      /\ pending' =
                           pending \cup {[id |-> started', kind |-> "reconnect"]}
                 ELSE started' = started /\ pending' = pending
     /\ started' # started =>
          \E r \in CloseCodes \ {LoggedOut} : ClosedWith(r)
     /\ pending' \subseteq pending \/ started' # started]_vars

\* C6 witness: a close without a status code has started the second session
C6_Witness ==
  /\ emitted # << >>
  /\ Last(emitted) = StatusClosed(NoCode)
  /\ started = 2
  /\ [id |-> 2, kind |-> "reconnect"] \in pending

\* C7: never two session initializations in progress at once, nor one in
\* progress while the session is Open.
C7_OneInitAtATime ==
  /\ Cardinality(pending) <= 1
  /\ ~(pending # {} /\ isConnected)

\* C8: after a broadcast no subscriber whose write failed is still
\* registered, and every other registered subscriber has the payloads.
C8_FailedWriteRemoves ==
  emitted # << >> =>
    \A c \in Range(sseClients) :
      /\ c \notin broken
      /\ Len(received[c]) >= Len(emitted)
      /\ SubSeq(received[c], Len(received[c]) - Len(emitted) + 1,
                Len(received[c])) = emitted

\* a subscriber that is registered before and after the step and delivers
Stays(c) ==
  /\ c \in Range(sseClients)
  /\ c \in Range(sseClients')
  /\ c \notin broken'

Healthy(c) == c \in Range(sseClients) /\ c \notin broken

\* what c has received after the hello
Events(c) == Tail(received[c])

IsSuffix(a, b) ==
  /\ Len(a) <= Len(b)
  /\ a = SubSeq(b, Len(b) - Len(a) + 1, Len(b))

C9_Inv ==
  /\ \A c \in DOMAIN received : \A i \in DOMAIN received[c] :
       received[c][i].type = "message"
         => received[c][i].data \in Range(appended)
  /\ \A c \in DOMAIN received : \A d \in DOMAIN received :
       (Healthy(c) /\ Healthy(d) /\ c < d) => IsSuffix(Events(d), Events(c))

\* C9: every subscriber that stays registered receives exactly the payloads
\* of each step, in the order they were generated, whoever else is removed;
\* a message event is only ever received for a record that was appended.
C9_OrderedDelivery ==
  /\ []C9_Inv
  /\ [][\A c \in DOMAIN received :
          Stays(c) => received'[c] = received[c] \o emitted']_vars

\* C9 witness: subscriber 2 received one event and was unregistered;
\* subscriber 1 received that event and a later one of another kind
C9_Witness ==
  /\ Len(received) = 2
  /\ closedReqs = {2}
  /\ broken = {}
  /\ Len(received[1]) = 3
  /\ Len(received[2]) = 2
  /\ received[2][2] = received[1][2]
  /\ received[1][2].type = "message"
  /\ received[1][3].type = "status"

\* C10: a POST /send whose `to` has no '@' and no digit is answered with a
\* 4xx that is not the generic send failure, and calls no sendMessage.
C10_InvalidRecipientIs400 ==
  (/\ httpResp.route = "send"
   /\ BothFields
   /\ sock # NoSock
   /\ ~HasAt(httpResp.to)
   /\ StripNonDigits(httpResp.to) = << >>)
    => /\ httpResp.status \in 400..499
       /\ httpResp.body.error # "send_failed"
       /\ sendCall = NoCall

\* the step handled a connection update that carries a pairing payload
HandledQr == handled'.h # NoSock /\ handled'.u.qr # NULL

\* the step handled a connection update whose connection field is c
HandledConn(c) == handled'.h # NoSock /\ handled'.u.connection = c

\* GET /status reports hasQR false, and GET /qr.png answers 204
NoPairingPayload == ~CurrentStatus.hasQR /\ latestQR = NULL

\* C11: the open event and the close event leave no pairing payload to
\* report, and none appears until the next pairing-payload event: GET
\* /status reports hasQR false and GET /qr.png answers 204 in Open and in
\* Closed or re-Initializing after a close.
C11_NoPayloadAfterOpenOrClose ==
  [][/\ HandledConn("open") => NoPairingPayload'
     /\ (HandledConn("close") /\ ~HandledQr) => NoPairingPayload'
     /\ (NoPairingPayload /\ ~HandledQr) => NoPairingPayload']_vars

\* C12: whenever GET /status reports connected false it reports me null.
C12_NoIdentityUnlessOpen ==
  (httpResp.route = "status" /\ ~httpResp.body.connected)
    => httpResp.body.me = NULL

\* the status reported while the first session is still initializing
C13_Inv ==
  socks = {} => CurrentStatus = [connected |-> FALSE, me |-> NULL,
                                 hasQR |-> FALSE]

\* C13: GET /status reports {connected:false, hasQR:false} until the first
\* connection update, {connected:false, hasQR:true} after a pairing-payload
\* update and {connected:true, hasQR:false} after the open update; the
\* pairing-payload update broadcasts one qr event and the open update one
\* status event with connected true, which the subscribers receive.
C13_PairingScenario ==
  /\ []C13_Inv
  /\ [][/\ handled'.h = NoSock => CurrentStatus' = CurrentStatus
        /\ (HandledQr /\ HandledConn("none") /\ ~isConnected)
             => /\ CurrentStatus' = [connected |-> FALSE, me |-> me,
                                     hasQR |-> TRUE]
                /\ emitted' = <<QrEvent>>
                /\ \A c \in DOMAIN received :
                     Stays(c) => received'[c] = Append(received[c], QrEvent)
        /\ (HandledConn("open") /\ ~HandledQr)
             => /\ CurrentStatus' = [connected |-> TRUE, me |-> me',
                                     hasQR |-> FALSE]
                /\ emitted' = <<StatusOpen(me')>>
                /\ StatusOpen(me').connected
                /\ \A c \in DOMAIN received :
                     Stays(c)
                       => received'[c] = Append(received[c], StatusOpen(me'))
       ]_vars

\* C13 witness: a subscriber of the first hour has seen the pairing payload
\* and then the open, and the status is now connected without a payload
C13_Witness ==
  /\ Len(received) >= 1
  /\ received[1] = <<HelloEvent, QrEvent, StatusOpen(Me)>>
  /\ handled.h # NoSock
  /\ CurrentStatus = [connected |-> TRUE, me |-> Me, hasQR |-> FALSE]

\* the step is the failure of the suspended startSock call p
Failed(p) == p \in pending /\ p \notin pending' /\ socks' = socks

\* C14: a failed reconnect leaves the process running, the session Closed
\* and starts no initialization; a failed boot initialization, and nothing
\* else, terminates the process.
C14_ReconnectFailureIsLogged ==
  [][/\ \A p \in pending :
          (Failed(p) /\ p.kind = "reconnect")
            => /\ ~exited'
               /\ isConnected' = isConnected
               /\ started' = started
               /\ pending' = pending \ {p}
     /\ \A p \in pending : (Failed(p) /\ p.kind = "boot") => exited'
     /\ (exited' /\ ~exited)
          => \E p \in pending : Failed(p) /\ p.kind = "boot"]_vars

\* C14 witness: the second startSock (a reconnect) has failed; the process
\* runs on, not connected, with the first handle and nothing in progress
C14_Witness ==
  /\ started = 2
  /\ pending = {}
  /\ socks = {1}
  /\ ~exited
  /\ ~isConnected
  /\ handled = NoUpdate

\* one attempt per recorded message, in order, when the URL is configured,
\* and none otherwise; a suspended batch can always go on
C15_Inv ==
  /\ fetches = IF WEBHOOK_URL # "" THEN appended ELSE << >>
  /\ DOMAIN outcomes \subseteq DOMAIN fetches
  /\ (tasks # << >> /\ ~exited) => ENABLED UpsertResume

\* C15: each recorded message causes exactly one webhook attempt when a URL
\* is configured and none otherwise; an attempt that settles, either way,
\* changes nothing of the store, the subscribers or the session and causes
\* no further attempt; a message is appended, broadcast and forwarded in one
\* step whatever the state of the earlier attempts.
C15_WebhookFireAndForget ==
  /\ []C15_Inv
  /\ [][/\ outcomes' # outcomes
             => UNCHANGED <<recentMessages, msgIndex, sseClients, received,
                            latestQR, sock, isConnected, me, pending, tasks,
                            exited, started, appended, fetches>>
        /\ appended' # appended
             => /\ Len(appended') = Len(appended) + 1
                /\ recentMessages' # recentMessages
                /\ emitted' = <<MessageEvent(Last(appended'))>>
                /\ fetches' = IF WEBHOOK_URL # ""
                                THEN Append(fetches, Last(appended'))
                                ELSE fetches
                /\ outcomes' = outcomes]_vars

\* C15 witness: the forward of the first message has failed, the forward of
\* the second is pending, and both messages have reached the subscriber
C15_Witness ==
  /\ Len(fetches) = 2
  /\ DOMAIN outcomes = {1}
  /\ outcomes[1] = "failed"
  /\ Len(appended) = 2
  /\ Len(received) >= 1
  /\ received[1] = <<HelloEvent, MessageEvent(appended[1]),
                     MessageEvent(appended[2])>>

\* the batch is a list tagged as a new notification
IsNewList(b) == b.type = "notify" /\ b.isArray

\* the numbers of the messages in a sequence of messages
NsOf(msgs) == {msgs[i].n : i \in DOMAIN msgs}

\* the numbers of the messages recorded so far, and of those still waiting
\* in a suspended handler
AppendedNs == {appended[i].raw.n : i \in DOMAIN appended}
QueuedNs == UNION {NsOf(tasks[t]) : t \in DOMAIN tasks}

\* the step recorded message m: store, broadcast and webhook
RecordedOne(m) ==
  /\ appended' = Append(appended, Item(m))
  /\ Last(recentMessages') = Item(m)
  /\ emitted' = <<MessageEvent(Item(m))>>
  /\ \A c \in Range(sseClients) :
       received'[c] = Append(received[c], MessageEvent(Item(m)))
  /\ fetches' = IF WEBHOOK_URL # "" THEN Append(fetches, Item(m))
                                    ELSE fetches

\* every message handed over in a new-notification list is recorded once
\* or still waits, and a waiting rest of a batch is in batch order
C16_Inv ==
  /\ AppendedNs \cup QueuedNs = 1..delivered
  /\ AppendedNs \cap QueuedNs = {}
  /\ Len(appended) + SumLen(tasks, Len(tasks)) = delivered
  /\ \A t \in DOMAIN tasks :
       /\ tasks[t] # << >>
       /\ tasks[t][1].n - 1 \in AppendedNs
       /\ \A i \in 1..(Len(tasks[t]) - 1) : tasks[t][i + 1].n = tasks[t][i].n + 1

\* C16: the messages of a new-notification list are appended, broadcast
\* and handed to the webhook one by one in batch order, the first when the
\* batch arrives and each next one when the handler resumes; a batch of
\* another kind, or one that is no list, leaves the history, the index,
\* the subscribers' streams and the webhook unchanged.
C16_NewBatchesAreRecorded ==
  /\ []C16_Inv
  /\ [][/\ (upserted' # NoBatch /\ IsNewList(upserted')
               /\ upserted'.messages # << >>)
             => /\ RecordedOne(upserted'.messages[1])
                /\ tasks' = IF Len(upserted'.messages) > 1
                              THEN Append(tasks, Tail(upserted'.messages))
                              ELSE tasks
        /\ (upserted' = NoBatch /\ appended' # appended)
             => /\ tasks # << >>
                /\ RecordedOne(Head(Head(tasks)))
        /\ (upserted' # NoBatch /\ ~IsNewList(upserted'))
             => UNCHANGED <<recentMessages, msgIndex, received, fetches,
                            appended, tasks>>]_vars

\* C16 witness: a new-notification list of two messages has arrived with
\* the webhook configured; the first is in the history, at the subscriber
\* and at the webhook, the second waits for the handler to resume
C16_Witness ==
  /\ upserted # NoBatch
  /\ IsNewList(upserted)
  /\ Len(upserted.messages) = 2
  /\ WEBHOOK_URL # ""
  /\ recentMessages = <<Item(upserted.messages[1])>>
  /\ fetches = <<Item(upserted.messages[1])>>
  /\ Len(received) >= 1
  /\ received[1] = <<HelloEvent, MessageEvent(Item(upserted.messages[1]))>>
  /\ tasks = <<Tail(upserted.messages)>>

\* every stream starts with the hello and has no other; unregistering a
\* subscriber twice is the same as once
C17_Inv ==
  /\ \A c \in DOMAIN received :
       /\ received[c] # << >>
       /\ received[c][1] = [type |-> "hello"]
       /\ \A i \in 2..Len(received[c]) : received[c][i].type # "hello"
  /\ \A c \in DOMAIN received :
       /\ c \in closedReqs => c \notin Range(sseClients)
       /\ SetDelete(SetDelete(sseClients, c), c) = SetDelete(sseClients, c)

\* C17: a new subscriber starts with the hello alone; in every step a
\* subscriber receives nothing or the events generated in that very step,
\* never an earlier one; once its request has closed it receives nothing.
C17_NoReplay ==
  /\ []C17_Inv
  /\ [][/\ Len(received') >= Len(received)
        /\ \A c \in DOMAIN received' \ DOMAIN received :
             received'[c] = <<[type |-> "hello"]>>
        /\ \A c \in DOMAIN received :
             /\ received'[c] \in {received[c], received[c] \o emitted'}
             /\ c \in closedReqs => received'[c] = received[c]]_vars

\* C17 witness: subscriber 1 received the pairing event and closed before
\* the open; subscriber 2 registered after the pairing event and received
\* the open only
C17_Witness ==
  /\ Len(received) = 2
  /\ closedReqs = {1}
  /\ received[1] = <<HelloEvent, QrEvent>>
  /\ received[2] = <<HelloEvent, StatusOpen(Me)>>

\* the direct-message domain suffix
DmSuffix == <<"@", "s", ".", "w", "h", "a", "t", "s", "a", "p", "p", ".",
              "n", "e", "t">>

\* jid is made of the digits of `to`, in their order, and the suffix
IsDigitsOf(jid, to) ==
  LET k == Len(jid) - Len(DmSuffix)
  IN /\ k >= 1
     /\ SubSeq(jid, k + 1, Len(jid)) = DmSuffix
     /\ \A i \in 1..k : jid[i] \in Digits
     /\ SubSeq(jid, 1, k) = SelectSeq(to, LAMBDA ch : ch \in Digits)

\* C18: of a POST /send that gets as far as normalizeJid, a recipient with
\* an '@' is handed to the transport unchanged, another one with a digit
\* as its digits followed by the direct-message suffix, and one with
\* neither fails with invalid_recipient and is not handed on.
C18_NormalizeJid ==
  (httpResp.route = "send" /\ BothFields /\ sock # NoSock) =>
    LET to == httpResp.to
    IN IF \E i \in DOMAIN to : to[i] = "@"
         THEN sendCall # NoCall /\ sendCall.jid = to
       ELSE IF \E i \in DOMAIN to : to[i] \in Digits
         THEN sendCall # NoCall /\ IsDigitsOf(sendCall.jid, to)
       ELSE /\ sendCall = NoCall
            /\ NormalizeJid(to) = [ok |-> FALSE, error |-> "invalid_recipient"]

\* C18 witness: "a1" was sent to, and the transport was called with
\* 1@s.whatsapp.net
C18_Witness ==
  /\ httpResp.route = "send"
  /\ httpResp.to = <<"a", "1">>
  /\ sendCall # NoCall
  /\ sendCall.jid = <<"1">> \o DmSuffix

\* C19: records enter the history batch after batch: when a suspended
\* handler records the next message of its batch (the head of its waiting
\* rest, which runs to the end of that batch), the history holds no record
\* of a batch that arrived later.
C19_BatchesDoNotInterleave ==
  [][(upserted' = NoBatch /\ appended' # appended /\ tasks # << >>)
       => \A i \in DOMAIN appended :
            appended[i].raw.n <= Last(Head(tasks)).n]_vars

\* C20: a pairing-payload, open or close update emitted by a handle that
\* a reconnect has replaced changes neither connected, me nor hasQR,
\* broadcasts nothing and starts no session initialization.
C20_ReplacedHandleIsIgnored ==
  [][(/\ handled'.h # NoSock
      /\ handled'.h # sock
      /\ HandledQr \/ HandledConn("open") \/ HandledConn("close"))
       => /\ CurrentStatus' = CurrentStatus
          /\ emitted' = << >>
          /\ started' = started
          /\ pending' = pending]_vars

=============================================================================
